---- MODULE Spec2Model ----
(***************************************************************************)
(* PlanMyTrip.py: a Streamlit script.  Every user interaction re-runs the  *)
(* script from the top; the widget values survive between runs, the script *)
(* locals do not.  A run triggered by the generate button validates the    *)
(* form, builds five agents and five tasks, kicks the crew off and         *)
(* presents the result.  Text is modelled as sequences of one-character    *)
(* strings, Python's None as the empty tuple and a present value v as      *)
(* <<v>>.  Emoji prefixes of the displayed messages are left out.          *)
(***************************************************************************)
EXTENDS Integers, Sequences, FiniteSets, TLC

VARIABLES gemini_api_key, view, from_city, destination, interests,
          start_date, end_date, budget_type, button, pc, shown,
          trip_duration, llm, tasks, crew, running, finished, started,
          kickoffs, search_calls, search_phase, search_response,
          search_return, search_raised, result, rendered, now, filename,
          download_content, failure, stages

inputs == <<from_city, destination, interests, start_date, end_date, budget_type>>
search == <<search_phase, search_response, search_return, search_raised>>
locals == <<trip_duration, llm, tasks, crew, running, finished, started,
            kickoffs, search_calls, search, result, rendered, now, filename,
            download_content, failure, stages>>
vars == <<gemini_api_key, view, inputs, button, pc, shown, locals>>

\* ---------------------------------------------------------------- bounds
MaxDestLen == 2
MaxSpan == 1
MaxTopics == 4
MaxSearchCalls == 2

\* ------------------------------------------------------- generic helpers
None == <<>>
Some(v) == <<v>>
Range(s) == {s[i] : i \in DOMAIN s}

RECURSIVE Strings(_, _)
Strings(alphabet, n) ==
    IF n = 0 THEN {<<>>}
    ELSE LET shorter == Strings(alphabet, n - 1)
         IN  shorter \cup {Append(s, c) : s \in shorter, c \in alphabet}

\* Python truthiness of a str: non-empty
Truthy(s) == Len(s) > 0

\* ---------------------------------------------------------------- dates
IsLeap(y) == y % 4 = 0 /\ (y % 100 # 0 \/ y % 400 = 0)

DaysInMonth(y, m) ==
    IF m = 2 THEN (IF IsLeap(y) THEN 29 ELSE 28)
    ELSE IF m \in {4, 6, 9, 11} THEN 30 ELSE 31

RECURSIVE DaysBeforeMonth(_, _)
DaysBeforeMonth(y, m) ==
    IF m = 1 THEN 0 ELSE DaysBeforeMonth(y, m - 1) + DaysInMonth(y, m - 1)

DaysBeforeYear(y) ==
    LET p == y - 1 IN p * 365 + (p \div 4) - (p \div 100) + (p \div 400)

\* datetime.date.toordinal
ToOrdinal(dt) == DaysBeforeYear(dt.y) + DaysBeforeMonth(dt.y, dt.m) + dt.d

\* datetime.date comparison: (year, month, day) compared as tuples
DateLT(a, b) ==
    \/ a.y < b.y
    \/ a.y = b.y /\ a.m < b.m
    \/ a.y = b.y /\ a.m = b.m /\ a.d < b.d
DateLE(a, b) == a = b \/ DateLT(a, b)

\* (a - b).days
DateSubDays(a, b) == ToOrdinal(a) - ToOrdinal(b)

NextDay(dt) ==
    IF dt.d < DaysInMonth(dt.y, dt.m) THEN [dt EXCEPT !.d = dt.d + 1]
    ELSE IF dt.m < 12 THEN [y |-> dt.y, m |-> dt.m + 1, d |-> 1]
    ELSE [y |-> dt.y + 1, m |-> 1, d |-> 1]

RECURSIVE AddDays(_, _)
AddDays(dt, k) == IF k = 0 THEN dt ELSE AddDays(NextDay(dt), k - 1)

BaseDates == { [y |-> 2023, m |-> 12, d |-> 31], [y |-> 2024, m |-> 2, d |-> 28] }
Dates == {AddDays(b, k) : b \in BaseDates, k \in 0..MaxSpan}
Today == [y |-> 2023, m |-> 12, d |-> 31]

\* ------------------------------------------------------- input domains
EnvValues == {None, Some(<<>>), Some(<<"k">>)}
Cities == {<<>>, <<"C">>}
DestAlphabet == {"a", " "}
Destinations == Strings(DestAlphabet, MaxDestLen)
InterestTexts == {<<>>, <<"f">>}
BudgetTypes == {"budget", "moderate", "luxury"}
ErrMsgs == {"auth", "network"}
Results == {"plan"}
Times == << [Y |-> 2024, m |-> 1, d |-> 5, H |-> 9, M |-> 3, S |-> 7],
            [Y |-> 2025, m |-> 12, d |-> 31, H |-> 23, M |-> 59, S |-> 59] >>

\* ------------------------------------------------------------ messages
Msg(kind, text, num, detail) ==
    [kind |-> kind, text |-> text, num |-> num, detail |-> detail]

KeyLoadedMsg   == Msg("success", "API Key loaded from environment!", 0, "")
DateErrorMsg   == Msg("error", "End date must be after start date!", 0, "")
DurationMsg(n) == Msg("info", "Trip Duration: {trip_duration} days", n, "")
FillWarningMsg == Msg("warning",
    "Please fill in all required fields and ensure end date is after start date!", 0, "")
ErrorMsg(e)    == Msg("error", "Error: {str(e)}", 0, e)
HintMsg        == Msg("info", "Please check your API key and try again", 0, "")
CompleteMsg    == Msg("success", "Multi-Agent Travel Plan Complete!", 0, "")
SavedMsg       == Msg("info", "Multi-agent travel plan saved as: {filename}", 0, "")
KeyMissingMsg  == Msg("error", "API Key not found!", 0, "")
EnvHintMsg     == Msg("info",
    "Please make sure you have a .env file with GEMINI_API_KEY=your_key", 0, "")
ProgressMsg    == Msg("progress", "agents working", 0, "")

\* ------------------------------------------------- duckduckgo_search tool
TopicKinds == {"full", "no_text", "no_url"}
TextOf(i) == <<"Text1", "Text2", "Text3", "Text4", "Text5", "Text6">>[i]
UrlOf(i)  == <<"URL1", "URL2", "URL3", "URL4", "URL5", "URL6">>[i]

\* what requests.get(...) followed by res.json() can give
Responses ==
    {[kind |-> k, has_topics |-> FALSE, topics |-> <<>>] :
        k \in {"timeout", "connection", "bad_json", "json"}}
    \cup {[kind |-> "json", has_topics |-> TRUE, topics |-> t] :
        t \in Strings(TopicKinds, MaxTopics)}

Raises(resp) == resp.kind # "json"
ExcText(resp) == resp.kind

\* data["RelatedTopics"][:3]
FirstThree(topics) == SubSeq(topics, 1, IF Len(topics) < 3 THEN Len(topics) ELSE 3)

\* results.append(f"{item['Text']} - {item['FirstURL']}") for the kept items
RECURSIVE CollectResults(_, _)
CollectResults(topics, i) ==
    IF i > Len(topics) THEN <<>>
    ELSE IF topics[i] = "full"
         THEN <<<<TextOf(i), " - ", UrlOf(i)>>>> \o CollectResults(topics, i + 1)
         ELSE CollectResults(topics, i + 1)

\* "\n".join(lines)
RECURSIVE JoinLines(_)
JoinLines(lines) ==
    IF Len(lines) = 0 THEN <<>>
    ELSE IF Len(lines) = 1 THEN lines[1]
    ELSE lines[1] \o <<"\n">> \o JoinLines(Tail(lines))

NoLiveInfo == <<"No live info found.">>
ErrorFetching(e) == <<"Error fetching live info: ", e>>

\* the except branch of duckduckgo_search, with a plausible slip: the
\* placeholder is returned for failures too
ExceptReturn_placeholder(resp) == [raised |-> FALSE, value |-> NoLiveInfo]

\* except Exception as e: return f"Error fetching live info: {str(e)}"
ExceptReturn(resp) == [raised |-> FALSE, value |-> ErrorFetching(ExcText(resp))]

duckduckgo_search(resp) ==
    IF Raises(resp) THEN ExceptReturn(resp)
    ELSE LET results == IF resp.has_topics
                        THEN CollectResults(FirstThree(resp.topics), 1)
                        ELSE <<>>
         IN  [raised |-> FALSE,
              value |-> IF Len(results) > 0 THEN JoinLines(results) ELSE NoLiveInfo]

\* ------------------------------------------------------ form validation
\* lines 75-80: the date check made on every run of the form
\* (a slip: strict comparison, equal dates pass)
DateCheckMsgs_strict(sd, ed) ==
    IF DateLT(ed, sd) THEN <<DateErrorMsg>>
    ELSE <<DurationMsg(DateSubDays(ed, sd))>>

DateCheckMsgs(sd, ed) ==
    IF DateLE(ed, sd) THEN <<DateErrorMsg>>
    ELSE <<DurationMsg(DateSubDays(ed, sd))>>

\* line 86 with the date order not checked
Accepted_nodates(fc, dest, ints, sd, ed) ==
    Truthy(fc) /\ Truthy(dest) /\ Truthy(ints)

\* line 86: from_city and destination and interests and start_date and
\* end_date and end_date > start_date (a date object is always truthy)
Accepted(fc, dest, ints, sd, ed) ==
    Truthy(fc) /\ Truthy(dest) /\ Truthy(ints) /\ DateLT(sd, ed)

\* an inclusive day count instead of the difference
TripDuration_inclusive(sd, ed) == DateSubDays(ed, sd) + 1

\* line 87: (end_date - start_date).days
TripDuration(sd, ed) == DateSubDays(ed, sd)

\* line 61 with only None counted as absent
KeyPresent_notnone(k) == k # None

\* line 61: if gemini_api_key (None and "" are falsy)
KeyPresent(k) == k # None /\ Truthy(k[1])

\* ------------------------------------------------------------- filename
Digit(n) == <<"0", "1", "2", "3", "4", "5", "6", "7", "8", "9">>[n + 1]

\* zero-padded decimal of width w
RECURSIVE Pad(_, _)
Pad(n, w) == IF w = 0 THEN <<>> ELSE Pad(n \div 10, w - 1) \o <<Digit(n % 10)>>

\* strftime("%Y%m%d_%H%M%S")
Timestamp(t) ==
    Pad(t.Y, 4) \o Pad(t.m, 2) \o Pad(t.d, 2) \o <<"_">>
    \o Pad(t.H, 2) \o Pad(t.M, 2) \o Pad(t.S, 2)

\* str.replace(' ', '_') replaces every occurrence
RECURSIVE ReplaceSpaces(_)
ReplaceSpaces(s) ==
    IF Len(s) = 0 THEN <<>>
    ELSE <<IF Head(s) = " " THEN "_" ELSE Head(s)>> \o ReplaceSpaces(Tail(s))

\* only the first occurrence replaced
RECURSIVE ReplaceFirstSpace(_)
ReplaceFirstSpace(s) ==
    IF Len(s) = 0 THEN <<>>
    ELSE IF Head(s) = " " THEN <<"_">> \o Tail(s)
    ELSE <<Head(s)>> \o ReplaceFirstSpace(Tail(s))

FilePrefix ==
    <<"m", "u", "l", "t", "i", "_", "a", "g", "e", "n", "t", "_",
      "t", "r", "a", "v", "e", "l", "_", "p", "l", "a", "n", "_">>
FileSuffix == <<".", "m", "d">>

Filename_firstspace(dest, t) ==
    FilePrefix \o ReplaceFirstSpace(dest) \o <<"_">> \o Timestamp(t) \o FileSuffix

\* line 316
Filename(dest, t) ==
    FilePrefix \o ReplaceSpaces(dest) \o <<"_">> \o Timestamp(t) \o FileSuffix

\* ------------------------------------------------------- agents and tasks
TaskNames == {"transport", "stay", "itinerary", "budget", "coordinator"}

\* tools= of the agent bound to each task; the coordinator has none
AgentTools(t) == IF t = "coordinator" THEN {} ELSE {"DuckDuckGo Search"}

\* context= with the itinerary left out of the budget task
TaskContext_short(t) ==
    IF t = "budget" THEN <<"transport", "stay">>
    ELSE IF t = "coordinator" THEN <<"transport", "stay", "itinerary", "budget">>
    ELSE <<>>

\* context= of each Task (lines 272 and 288; the first three declare none)
TaskContext(t) ==
    IF t = "budget" THEN <<"transport", "stay", "itinerary">>
    ELSE IF t = "coordinator" THEN <<"transport", "stay", "itinerary", "budget">>
    ELSE <<>>

\* the values interpolated into each task description
TaskParams(t, fc, dest, ints, dur, bt) ==
    IF t = "transport" THEN [from_city |-> fc, destination |-> dest]
    ELSE IF t = "stay" THEN [destination |-> dest, budget_type |-> bt]
    ELSE IF t = "itinerary"
         THEN [trip_duration |-> dur, destination |-> dest, interests |-> ints]
    ELSE IF t = "budget"
         THEN [trip_duration |-> dur, destination |-> dest, budget_type |-> bt,
               from_city |-> fc]
    ELSE [from_city |-> fc, destination |-> dest]

BuildTasks(fc, dest, ints, dur, bt) ==
    [t \in TaskNames |->
        [agent |-> t,
         description |-> TaskParams(t, fc, dest, ints, dur, bt),
         context |-> TaskContext(t)]]

\* tasks= with the budget task listed before the itinerary task
CrewTasks_swapped == <<"transport", "stay", "budget", "itinerary", "coordinator">>

\* line 293: tasks=[...]
CrewTasks == <<"transport", "stay", "itinerary", "budget", "coordinator">>

\* ------------------------------------------------------ the script run
DefaultBudget == "budget"

\* the locals a fresh run of the script starts without
FreshLocals ==
    /\ llm' = None
    /\ tasks' = None
    /\ crew' = <<>>
    /\ running' = 0
    /\ finished' = {}
    /\ started' = {}
    /\ kickoffs' = 0
    /\ search_calls' = 0
    /\ search_phase' = "idle"
    /\ search_response' = None
    /\ search_return' = None
    /\ search_raised' = FALSE
    /\ result' = None
    /\ rendered' = FALSE
    /\ now' = None
    /\ filename' = None
    /\ download_content' = None
    /\ failure' = None

\* lines 357-372: the view without a key
StaticPage == <<KeyMissingMsg, EnvHintMsg>>

\* lines 62-80: what every run of the form shows before the button
FormTop(sd, ed) == <<KeyLoadedMsg>> \o DateCheckMsgs(sd, ed)

\* lines 85-86 and 354-355: the page of a rejected press
RejectedPage(sd, ed) == FormTop(sd, ed) \o <<FillWarningMsg>>

\* lines 61-88 and 354-355: one run of the script with the key present,
\* up to the spinner (accepted press) or to the end of the script
RunForm(fc, dest, ints, sd, ed, bt, pressed) ==
    /\ view' = "form"
    /\ from_city' = fc
    /\ destination' = dest
    /\ interests' = ints
    /\ start_date' = sd
    /\ end_date' = ed
    /\ budget_type' = bt
    /\ button' = pressed
    /\ FreshLocals
    /\ IF pressed /\ Accepted(fc, dest, ints, sd, ed)
       THEN /\ trip_duration' = Some(TripDuration(sd, ed))
            /\ shown' = FormTop(sd, ed)
            /\ pc' = "llm"
            /\ stages' = <<"validate">>
       ELSE /\ trip_duration' = IF DateLE(ed, sd) THEN None
                                ELSE Some(DateSubDays(ed, sd))
            /\ shown' = IF pressed THEN RejectedPage(sd, ed) ELSE FormTop(sd, ed)
            /\ pc' = "idle"
            /\ stages' = IF pressed THEN <<"validate">> ELSE <<>>

Init ==
    /\ gemini_api_key \in EnvValues
    /\ from_city = <<>>
    /\ destination = <<>>
    /\ interests = <<>>
    /\ start_date = Today
    /\ end_date = Today
    /\ budget_type = DefaultBudget
    /\ button = FALSE
    /\ pc = "idle"
    /\ view = IF KeyPresent(gemini_api_key) THEN "form" ELSE "static"
    /\ shown = IF KeyPresent(gemini_api_key) THEN FormTop(Today, Today) ELSE StaticPage
    /\ trip_duration = None
    /\ llm = None
    /\ tasks = None
    /\ crew = <<>>
    /\ running = 0
    /\ finished = {}
    /\ started = {}
    /\ kickoffs = 0
    /\ search_calls = 0
    /\ search_phase = "idle"
    /\ search_response = None
    /\ search_return = None
    /\ search_raised = FALSE
    /\ result = None
    /\ rendered = FALSE
    /\ now = None
    /\ filename = None
    /\ download_content = None
    /\ failure = None
    /\ stages = <<>>

\* the browser reloads the page: the script runs again, button not pressed
Reload ==
    /\ pc = "idle"
    /\ IF KeyPresent(gemini_api_key)
       THEN RunForm(from_city, destination, interests, start_date, end_date,
                    budget_type, FALSE)
       ELSE /\ view' = "static"
            /\ shown' = StaticPage
            /\ button' = FALSE
            /\ pc' = "idle"
            /\ UNCHANGED <<inputs, locals>>
    /\ UNCHANGED gemini_api_key

EditFromCity ==
    /\ pc = "idle" /\ view = "form"
    /\ \E v \in Cities \ {from_city} :
        RunForm(v, destination, interests, start_date, end_date, budget_type, FALSE)
    /\ UNCHANGED gemini_api_key

EditDestination ==
    /\ pc = "idle" /\ view = "form"
    /\ \E v \in Destinations \ {destination} :
        RunForm(from_city, v, interests, start_date, end_date, budget_type, FALSE)
    /\ UNCHANGED gemini_api_key

EditInterests ==
    /\ pc = "idle" /\ view = "form"
    /\ \E v \in InterestTexts \ {interests} :
        RunForm(from_city, destination, v, start_date, end_date, budget_type, FALSE)
    /\ UNCHANGED gemini_api_key

EditStartDate ==
    /\ pc = "idle" /\ view = "form"
    /\ \E v \in Dates \ {start_date} :
        RunForm(from_city, destination, interests, v, end_date, budget_type, FALSE)
    /\ UNCHANGED gemini_api_key

EditEndDate ==
    /\ pc = "idle" /\ view = "form"
    /\ \E v \in Dates \ {end_date} :
        RunForm(from_city, destination, interests, start_date, v, budget_type, FALSE)
    /\ UNCHANGED gemini_api_key

EditBudgetType ==
    /\ pc = "idle" /\ view = "form"
    /\ \E v \in BudgetTypes \ {budget_type} :
        RunForm(from_city, destination, interests, start_date, end_date, v, FALSE)
    /\ UNCHANGED gemini_api_key

\* line 85: the button is pressed
PressGenerate ==
    /\ pc = "idle" /\ view = "form"
    /\ RunForm(from_city, destination, interests, start_date, end_date,
               budget_type, TRUE)
    /\ UNCHANGED gemini_api_key

\* the failing step is tried again instead of ending the run
OnException_retry(e) ==
    /\ shown' = shown \o <<ErrorMsg(e), HintMsg>>
    /\ pc' = pc
    /\ failure' = Some(e)
    /\ stages' = Append(stages, "error")

\* lines 350-352: except Exception as e, then the script ends
OnException(e) ==
    /\ shown' = shown \o <<ErrorMsg(e), HintMsg>>
    /\ pc' = "idle"
    /\ failure' = Some(e)
    /\ stages' = Append(stages, "error")

\* lines 93-97: LLM(model=..., api_key=..., temperature=0.3)
LLMConfig(key) ==
    [model |-> "gemini/gemini-1.5-flash", api_key |-> key, temperature |-> "0.3"]

LLMSetup ==
    /\ pc = "llm"
    /\ \/ /\ llm' = Some(LLMConfig(gemini_api_key[1]))
          /\ pc' = "build"
          /\ stages' = Append(stages, "llm")
          /\ UNCHANGED <<shown, failure>>
       \/ /\ \E e \in ErrMsgs : OnException(e)
          /\ UNCHANGED llm
    /\ UNCHANGED <<gemini_api_key, view, inputs, button, trip_duration, tasks,
                   crew, running, finished, started, kickoffs, search_calls,
                   search, result, rendered,
                   now, filename, download_content>>

\* lines 102-304: agents, tasks, crew and the progress placeholder
BuildCrew ==
    /\ pc = "build"
    /\ \/ /\ tasks' = Some(BuildTasks(from_city, destination, interests,
                                      trip_duration[1], budget_type))
          /\ crew' = CrewTasks
          /\ shown' = Append(shown, ProgressMsg)
          /\ pc' = "kickoff"
          /\ stages' = Append(stages, "build")
          /\ UNCHANGED failure
       \/ /\ \E e \in ErrMsgs : OnException(e)
          /\ UNCHANGED <<tasks, crew>>
    /\ UNCHANGED <<gemini_api_key, view, inputs, button, trip_duration, llm,
                   running, finished, started, kickoffs, search_calls,
                   search, result, rendered,
                   now, filename, download_content>>

\* kickoff is entered a second time before the tasks run
Kickoff_twice ==
    /\ pc = "kickoff"
    /\ kickoffs' = kickoffs + 1
    /\ running' = 1
    /\ pc' = IF kickoffs = 0 THEN "kickoff" ELSE "running"
    /\ stages' = Append(stages, "kickoff")
    /\ UNCHANGED <<gemini_api_key, view, inputs, button, shown, trip_duration,
                   llm, tasks, crew, finished, started, search_calls,
                   search, result, rendered,
                   now, filename, download_content, failure>>

\* line 306: travel_crew.kickoff() is called
Kickoff ==
    /\ pc = "kickoff"
    /\ kickoffs' = kickoffs + 1
    /\ running' = 1
    /\ pc' = "running"
    /\ stages' = Append(stages, "kickoff")
    /\ UNCHANGED <<gemini_api_key, view, inputs, button, shown, trip_duration,
                   llm, tasks, crew, finished, started, search_calls,
                   search, result, rendered,
                   now, filename, download_content, failure>>

\* inside kickoff: the runtime runs the next task of the list; the last
\* task's output is the crew's result
RunTask ==
    /\ pc = "running"
    /\ running \in 1..Len(crew)
    /\ started' = started \cup {[task |-> crew[running], avail |-> finished]}
    /\ search_calls' = 0
    /\ \/ /\ finished' = finished \cup {crew[running]}
          /\ IF running = Len(crew)
             THEN /\ \E r \in Results : result' = Some(r)
                  /\ pc' = "present"
                  /\ UNCHANGED running
             ELSE /\ running' = running + 1
                  /\ UNCHANGED <<result, pc>>
          /\ UNCHANGED <<shown, failure, stages>>
       \/ /\ \E e \in ErrMsgs : OnException(e)
          /\ UNCHANGED <<finished, running, result>>
    /\ UNCHANGED <<gemini_api_key, view, inputs, button, trip_duration, llm,
                   tasks, crew, kickoffs, search, rendered, now, filename,
                   download_content>>

ResponseKinds == {"timeout", "connection", "bad_json", "json"}

\* inside kickoff: the agent of the running task calls its tool; the text
\* returned goes to the agent, an exception would end the kickoff
SearchTool ==
    /\ pc = "running"
    /\ running \in 1..Len(crew)
    /\ AgentTools(tasks[1][crew[running]].agent) # {}
    /\ search_calls < MaxSearchCalls
    /\ search_calls' = search_calls + 1
    /\ \E k \in ResponseKinds :
        LET resp == [kind |-> k, has_topics |-> FALSE, topics |-> <<>>]
        IN  IF duckduckgo_search(resp).raised
            THEN OnException(ExcText(resp))
            ELSE UNCHANGED <<pc, shown, failure, stages>>
    /\ UNCHANGED <<gemini_api_key, view, inputs, button, trip_duration, llm,
                   tasks, crew, running, finished, started, kickoffs, search,
                   result, rendered, now, filename, download_content>>

\* progress_placeholder.empty()
ClearProgress(page) == SelectSeq(page, LAMBDA m : m # ProgressMsg)

PlanMarkdown(r) == Msg("markdown", "{str(result)}", 0, r)

\* lines 308-348
Present ==
    /\ pc = "present"
    /\ \E i \in DOMAIN Times : \E j \in i..Len(Times) :
        /\ now' = Some(Times[i])
        /\ filename' = Some(Filename(destination, Times[i]))
        /\ download_content' =
              Some([from_city |-> from_city, destination |-> destination,
                    generated |-> Times[j], start_date |-> start_date,
                    end_date |-> end_date, duration |-> trip_duration[1],
                    interests |-> interests, budget_type |-> budget_type,
                    body |-> result[1]])
    /\ shown' = ClearProgress(shown)
                 \o <<CompleteMsg, PlanMarkdown(result[1]), SavedMsg>>
    /\ rendered' = TRUE
    /\ pc' = "idle"
    /\ stages' = Append(stages, "present")
    /\ UNCHANGED <<gemini_api_key, view, inputs, button, trip_duration, llm,
                   tasks, crew, running, finished, started, kickoffs,
                   search_calls, search,
                   result, failure>>

Next ==
    \/ Reload
    \/ EditFromCity
    \/ EditDestination
    \/ EditInterests
    \/ EditStartDate
    \/ EditEndDate
    \/ EditBudgetType
    \/ PressGenerate
    \/ LLMSetup
    \/ BuildCrew
    \/ Kickoff
    \/ RunTask
    \/ SearchTool
    \/ Present

Spec == Init /\ [][Next]_vars

TypeOK ==
    /\ gemini_api_key \in EnvValues
    /\ view \in {"form", "static"}
    /\ from_city \in Cities
    /\ destination \in Destinations
    /\ interests \in InterestTexts
    /\ start_date \in Dates /\ end_date \in Dates
    /\ budget_type \in BudgetTypes
    /\ button \in BOOLEAN
    /\ pc \in {"idle", "llm", "build", "kickoff", "running", "present"}
    /\ kickoffs \in 0..1
    /\ search_calls \in 0..MaxSearchCalls

\* ------------------------------------------- the search tool on its own
\* a run that has reached the first task of the kickoff
SearchInit ==
    /\ gemini_api_key = Some(<<"k">>)
    /\ view = "form"
    /\ from_city = <<"C">>
    /\ destination = <<"a">>
    /\ interests = <<"f">>
    /\ start_date = Today
    /\ end_date = NextDay(Today)
    /\ budget_type = DefaultBudget
    /\ button = TRUE
    /\ pc = "running"
    /\ shown = Append(FormTop(Today, NextDay(Today)), ProgressMsg)
    /\ trip_duration = Some(TripDuration(Today, NextDay(Today)))
    /\ llm = Some(LLMConfig(<<"k">>))
    /\ tasks = Some(BuildTasks(<<"C">>, <<"a">>, <<"f">>,
                               TripDuration(Today, NextDay(Today)), DefaultBudget))
    /\ crew = CrewTasks
    /\ running = 1
    /\ finished = {}
    /\ started = {}
    /\ kickoffs = 1
    /\ search_calls = 0
    /\ search_phase = "idle"
    /\ search_response = None
    /\ search_return = None
    /\ search_raised = FALSE
    /\ result = None
    /\ rendered = FALSE
    /\ now = None
    /\ filename = None
    /\ download_content = None
    /\ failure = None
    /\ stages = <<"validate", "llm", "build", "kickoff">>

\* lines 43-48: requests.get(..., timeout=5) and res.json() give a
\* response or raise
SearchRequest ==
    /\ pc = "running"
    /\ AgentTools(tasks[1][crew[running]].agent) # {}
    /\ search_phase \in {"idle", "returned"}
    /\ \E resp \in Responses : search_response' = Some(resp)
    /\ search_phase' = "responded"
    /\ search_return' = None
    /\ search_raised' = FALSE
    /\ UNCHANGED <<gemini_api_key, view, inputs, button, pc, shown,
                   trip_duration, llm, tasks, crew, running, finished, started,
                   kickoffs, search_calls, result, rendered, now, filename,
                   download_content, failure, stages>>

\* lines 49-56: the tool returns
SearchReturn ==
    /\ search_phase = "responded"
    /\ LET r == duckduckgo_search(search_response[1])
       IN  /\ search_return' = Some(r.value)
           /\ search_raised' = r.raised
    /\ search_phase' = "returned"
    /\ UNCHANGED <<gemini_api_key, view, inputs, button, pc, shown,
                   trip_duration, llm, tasks, crew, running, finished, started,
                   kickoffs, search_calls, search_response, result, rendered,
                   now, filename, download_content, failure, stages>>

SearchNext ==
    \/ SearchRequest
    \/ SearchReturn

SearchSpec == SearchInit /\ [][SearchNext]_vars

\* =============================================================== claims
EmptyField == from_city = <<>> \/ destination = <<>> \/ interests = <<>>

BadDates == DateLE(end_date, start_date)

ErrorsOf(page) == SelectSeq(page, LAMBDA m : m.kind \in {"error", "warning"})

IsPrefix(s, t) == Len(s) <= Len(t) /\ s = SubSeq(t, 1, Len(s))

Count(s, x) == Cardinality({i \in DOMAIN s : s[i] = x})

\* days from a to b counted one calendar day at a time (a not after b)
RECURSIVE DaysFromTo(_, _)
DaysFromTo(a, b) == IF a = b THEN 0 ELSE 1 + DaysFromTo(NextDay(a), b)

\* the decimal value of a sequence of digit characters
IsDigit(c) == \E n \in 0..9 : Digit(n) = c

DigitVal(c) == CHOOSE n \in 0..9 : Digit(n) = c

RECURSIVE Num(_)
Num(ds) ==
    IF Len(ds) = 0 THEN 0
    ELSE 10 * Num(SubSeq(ds, 1, Len(ds) - 1)) + DigitVal(ds[Len(ds)])

\* the stages of an accepted request, in order
CanonStages == <<"validate", "llm", "build", "kickoff", "present">>

\* C1: after a press of the generate button with an empty from_city,
\* destination or interests, or with end_date <= start_date, the request is
\* rejected and nothing external happens for it: no LLM client is
\* constructed, no task is built, the crew is not kicked off, no search is
\* made, and the run has ended with the warning.
C1_RejectedNoExternalCall ==
    (button /\ (EmptyField \/ BadDates)) =>
        /\ pc = "idle"
        /\ llm = None
        /\ tasks = None
        /\ kickoffs = 0
        /\ search_calls = 0
        /\ result = None
        /\ stages = <<"validate">>
        /\ shown[Len(shown)] = FillWarningMsg

C1_Witness ==
    button /\ BadDates /\ ~EmptyField /\ pc = "idle"

\* C2 (as stated): the errors reported for a rejected submission tell which
\* constraint failed: a date-order violation shows the date error, and two
\* rejected submissions that violate different sets of constraints never
\* show the same errors.
C2_Original ==
    (button /\ (EmptyField \/ BadDates)) =>
        /\ BadDates => DateErrorMsg \in Range(shown)
        /\ \A fc \in Cities, d \in Destinations, i \in InterestTexts,
              sd \in Dates, ed \in Dates :
              LET empty == fc = <<>> \/ d = <<>> \/ i = <<>>
                  dates == DateLE(ed, sd)
              IN  ((empty \/ dates) /\ <<empty, dates>> # <<EmptyField, BadDates>>)
                      => ErrorsOf(RejectedPage(sd, ed)) # ErrorsOf(shown)

\* C2 (amended): every rejected submission is reported with the same generic
\* warning, which names both constraints; the date error "End date must be
\* after start date!" is shown with it exactly when end_date <= start_date;
\* no message is specific to an empty field.
C2_RejectionReport ==
    (button /\ (EmptyField \/ BadDates)) =>
        ErrorsOf(shown) = IF BadDates THEN <<DateErrorMsg, FillWarningMsg>>
                          ELSE <<FillWarningMsg>>

C2_Witness ==
    button /\ BadDates /\ EmptyField /\ pc = "idle" /\ Len(shown) = 3

\* C3: whatever the inputs, the budget task's context is exactly
\* {transport, stay, itinerary}, the coordinator's is exactly {transport,
\* stay, itinerary, budget}, and the other three tasks declare none.
C3_Wiring ==
    tasks # None =>
        /\ DOMAIN tasks[1] = TaskNames
        /\ Range(tasks[1]["budget"].context) = {"transport", "stay", "itinerary"}
        /\ Range(tasks[1]["coordinator"].context)
              = {"transport", "stay", "itinerary", "budget"}
        /\ \A t \in {"transport", "stay", "itinerary"} : tasks[1][t].context = <<>>

C3_Witness ==
    tasks # None /\ budget_type = "luxury" /\ Len(destination) = 2

\* C4: with end_date after start_date the duration shown, the duration put
\* into the prompts and the duration of the download all equal the number of
\* calendar days from start_date to end_date, which is at least 1; with
\* end_date <= start_date no duration is shown or used.
C4_Duration ==
    view = "form" =>
        IF DateLT(start_date, end_date)
        THEN LET n == DaysFromTo(start_date, end_date)
             IN  /\ n >= 1
                 /\ trip_duration = Some(n)
                 /\ DurationMsg(n) \in Range(shown)
                 /\ \A m \in Range(shown) :
                        m.text = DurationMsg(n).text => m.num = n
                 /\ tasks # None =>
                        /\ tasks[1]["itinerary"].description.trip_duration = n
                        /\ tasks[1]["budget"].description.trip_duration = n
                 /\ download_content # None => download_content[1].duration = n
        ELSE /\ trip_duration = None
             /\ \A m \in Range(shown) : m.text # DurationMsg(0).text
             /\ tasks = None
             /\ download_content = None

C4_Witness ==
    /\ download_content # None
    /\ start_date.y # end_date.y
    /\ end_date.m = 2 /\ end_date.d = 29

\* C5 (as stated): when the search request times out, duckduckgo_search
\* returns exactly "No live info found." and raises nothing.
C5_Original ==
    (search_phase = "returned" /\ search_response[1].kind = "timeout") =>
        search_return = Some(NoLiveInfo) /\ ~search_raised

\* C5 (amended): when the search request times out, duckduckgo_search
\* returns "Error fetching live info: " followed by the exception's message,
\* not the placeholder, and raises nothing.
C5_TimeoutReturn ==
    (search_phase = "returned" /\ search_response[1].kind = "timeout") =>
        /\ Len(search_return[1]) = 2
        /\ search_return[1][1] = "Error fetching live info: "
        /\ search_return[1][2] = "timeout"
        /\ search_return[1] # NoLiveInfo
        /\ ~search_raised

C5_Witness ==
    search_phase = "returned" /\ search_response[1].kind = "timeout"

\* C6: once a step of the execution stage has failed, the run is over:
\* exactly one error message, carrying the underlying message and followed
\* by the hint, is shown; the kickoff was called at most once; no plan is
\* rendered and no filename or download exists.
C6_FailureAborts ==
    failure # None =>
        /\ pc = "idle"
        /\ Cardinality({i \in DOMAIN shown : shown[i].kind = "error"}) = 1
        /\ Len(shown) >= 2
        /\ shown[Len(shown) - 1] = ErrorMsg(failure[1])
        /\ shown[Len(shown)] = HintMsg
        /\ Count(stages, "error") = 1
        /\ kickoffs <= 1
        /\ Count(stages, "kickoff") = kickoffs
        /\ result = None
        /\ ~rendered
        /\ \A m \in Range(shown) : m.kind # "markdown" /\ m # CompleteMsg
        /\ filename = None
        /\ download_content = None

C6_Witness ==
    /\ failure # None
    /\ kickoffs = 1
    /\ \E s \in started : s.task = "budget"

\* C7: the filename of a successful run is "multi_agent_travel_plan_", then
\* the destination with every space replaced by an underscore, then "_",
\* then the generation time as YYYYMMDD_HHMMSS, then ".md".
C7_Filename ==
    filename # None =>
        LET f == filename[1]
            n == Len(destination)
            t == now[1]
            ts == SubSeq(f, 26 + n, 40 + n)
        IN  /\ Len(f) = 43 + n
            /\ SubSeq(f, 1, 24) = FilePrefix
            /\ \A i \in 1..n :
                  f[24 + i] = IF destination[i] = " " THEN "_" ELSE destination[i]
            /\ f[25 + n] = "_"
            /\ ts[9] = "_"
            /\ \A k \in (1..15) \ {9} : IsDigit(ts[k])
            /\ Num(SubSeq(ts, 1, 4)) = t.Y
            /\ Num(SubSeq(ts, 5, 6)) = t.m
            /\ Num(SubSeq(ts, 7, 8)) = t.d
            /\ Num(SubSeq(ts, 10, 11)) = t.H
            /\ Num(SubSeq(ts, 12, 13)) = t.M
            /\ Num(SubSeq(ts, 14, 15)) = t.S
            /\ SubSeq(f, 41 + n, 43 + n) = <<".", "m", "d">>
            /\ rendered /\ SavedMsg \in Range(shown)

C7_Witness ==
    filename # None /\ destination = <<" ", " ">> /\ now[1].H = 9

\* C8: without a key (unset or empty) the static view is shown and nothing
\* else: the form's inputs are never collected, the generate button cannot
\* be pressed, and no LLM, task, kickoff or search exists.
C8_NoKeyStaticView ==
    (gemini_api_key = None \/ gemini_api_key = Some(<<>>)) =>
        /\ view = "static"
        /\ shown = StaticPage
        /\ ~button
        /\ pc = "idle"
        /\ ~ENABLED PressGenerate
        /\ from_city = <<>> /\ destination = <<>> /\ interests = <<>>
        /\ llm = None /\ tasks = None
        /\ kickoffs = 0 /\ search_calls = 0
        /\ stages = <<>>

C8_Witness ==
    gemini_api_key = Some(<<>>) /\ view = "static" /\ shown = StaticPage

\* C9: within a request the stages run forward and each at most once:
\* validation, LLM and task construction, one kickoff, presentation; the
\* result exists only after the one kickoff ran all tasks, and the plan, the
\* filename and the download exist only after the result.
C9_StagesForward ==
    /\ \/ IsPrefix(stages, CanonStages)
       \/ /\ Len(stages) >= 2
          /\ stages[Len(stages)] = "error"
          /\ IsPrefix(SubSeq(stages, 1, Len(stages) - 1), SubSeq(CanonStages, 1, 4))
    /\ kickoffs <= 1
    /\ Count(stages, "kickoff") = kickoffs
    /\ tasks # None <=> Count(stages, "build") = 1
    /\ result # None => (kickoffs = 1 /\ finished = TaskNames /\ tasks # None)
    /\ rendered <=> stages = CanonStages
    /\ rendered => result # None
    /\ (filename # None \/ download_content # None) => rendered
    /\ pc = "present" => (result # None /\ ~rendered)

C9_Witness ==
    rendered /\ stages = CanonStages /\ kickoffs = 1 /\ download_content # None

\* C10: the task list given to the crew is a topological order of the
\* declared contexts: every task comes after every task of its context, so
\* a task run in list order starts with all of its context already finished.
C10_TopologicalOrder ==
    crew # <<>> =>
        /\ Len(crew) = 5 /\ Range(crew) = TaskNames
        /\ \A i \in DOMAIN crew :
              \A d \in Range(tasks[1][crew[i]].context) :
                  \E j \in 1..(i - 1) : crew[j] = d
        /\ \A s \in started : Range(tasks[1][s.task].context) \subseteq s.avail

C10_Witness ==
    \E s \in started :
        s.task = "coordinator" /\ s.avail = TaskNames \ {"coordinator"}

====
